---- MODULE Spec2Model ----
(***************************************************************************)
(* The Redis backend of libkv (store/redis/redis.go): a key-value store    *)
(* contract (Put, Get, Delete, Exists, List, DeleteTree, AtomicPut,        *)
(* AtomicDelete, Watch, WatchTree, NewLock) synthesised over the commands  *)
(* of a single Redis node (SET, GET, DEL, SETNX, EXISTS, SCAN, MGET).      *)
(*                                                                         *)
(* Every engine command is one atomic step.  A store method that issues    *)
(* several commands is a sequence of steps of one caller, and the steps of *)
(* the callers in Procs interleave.                                        *)
(***************************************************************************)
EXTENDS Integers, Sequences, FiniteSets, TLC

\* ---------------------------------------------------------------- bounds

\* Readings of the nanosecond clock range over 0..MaxNano.
MaxNano == 1
\* Time-to-live values, in clock ticks, range over 1..MaxTTL.
MaxTTL == 1
\* Keys of other applications held by the same engine: none, or MaxFill.
MaxFill == 9
\* Store methods called in one behaviour.
MaxCalls == 3
\* keys() stops being followed once it has accumulated this many keys.
MaxAllKeys == 4

\* ------------------------------------------------------------- universes

\* The concurrent callers of the one Redis value (goroutines).  The Redis
\* struct holds nothing but the client handle, so callers are interchangeable.
Procs == {1, 2}

\* A Go string key is the tuple of its characters.
Kab == <<"a", "/", "b">>
Kac == <<"a", "/", "c">>
Ka == <<"a">>

\* Logical keys callers use, and the directories they list or delete: "a"
\* holds both keys, and the prefix of "a/b" holds the first alone.
Keys == {Kab, Kac}
Dirs == {Ka, Kab}

\* Caller values ([]byte).
Values == {"", "v1"}

\* A Go nil pointer, and a non-nil pointer to x.
Nil == <<>>
Some(x) == <<x>>

\* store.WriteOptions: nil, or a TTL.
Options == {Nil} \cup {Some([TTL |-> t]) : t \in 1..MaxTTL}

\* uint64(time.Now().Nanosecond()): the nanosecond within the current second.
Versions == 0..MaxNano

\* The errors the methods return ("" is a nil error).
NoErr == ""
ErrKeyNotFound == "ErrKeyNotFound"
ErrKeyModified == "ErrKeyModified"
ErrNotImplemented == "ErrNotImplemented"
\* Any error of the engine's client other than redis.Nil (a timeout, a
\* closed connection): returned to the caller as it is.
ErrEngine == "ErrEngine"

\* ---------------------------------------------------------- key normalizer

\* strings.Split(key, "/") without its empty parts.
RECURSIVE SplitKey(_)
SplitKey(key) ==
    IF key = <<>> THEN <<>>
    ELSE IF Head(key) = "/" THEN SplitKey(Tail(key))
    ELSE LET rest == SplitKey(Tail(key))
             cont == Len(key) > 1 /\ key[2] # "/"
         IN  IF cont THEN <<<<Head(key)>> \o Head(rest)>> \o Tail(rest)
             ELSE <<<<Head(key)>>>> \o rest

RECURSIVE join(_)
join(parts) ==
    IF parts = <<>> THEN <<>>
    ELSE IF Len(parts) = 1 THEN Head(parts)
    ELSE Head(parts) \o <<"/">> \o join(Tail(parts))

\* store.Normalize: the flat engine key of a logical key, "/path/to/key".
Normalize(key) == <<"/">> \o join(SplitKey(key))

normalize(key) == Normalize(key)

FlatKeys == {normalize(k) : k \in Keys}

\* The order in which the engine's scan meets the flat keys.
KeyOrder == <<normalize(Kab), normalize(Kac)>>

\* ------------------------------------------------------ versioned value codec

versionedValue(value, version) == [Value |-> value, Version |-> version]

\* json.Marshal of a versionedValue: a JSON object whose Value member is the
\* base64 text of the bytes.
Base64(bytes) == <<"base64", bytes>>
UnBase64(text) == text[2]
marshal(vv) == <<"{", Base64(vv.Value), vv.Version, "}">>
unmarshal(in) == [Value |-> UnBase64(in[2]), Version |-> in[3]]

\* ------------------------------------------------------------------ engine

\* An engine entry: the stored string and the ticks left before it expires
\* (0: no expiry).
Entry(s, ttl) == [val |-> s, ttl |-> ttl]
Absent == [val |-> <<>>, ttl |-> 0]

\* The string Put and AtomicPut store (lines 89-93, 249-253).
Envelope(value, version) == marshal(versionedValue(value, version))

\* SET key s [PX ttl]
EngineSet(d, k, s, ttl) == [d EXCEPT ![k] = Entry(s, ttl)]
\* GET key: the stored string, or redis.Nil
EngineGet(d, k) == IF d[k] = Absent THEN Nil ELSE Some(d[k].val)
\* DEL key...
EngineDel(d, ks) == [k \in DOMAIN d |-> IF k \in ks THEN Absent ELSE d[k]]
\* SETNX key s [PX ttl]: sets only an absent key
EngineSetNX(d, k, s, ttl) == IF d[k] = Absent THEN EngineSet(d, k, s, ttl) ELSE d
\* EXISTS key
EngineExists(d, k) == d[k] # Absent

RECURSIVE HasPrefix(_, _)
HasPrefix(s, prefix) ==
    \/ prefix = <<>>
    \/ /\ s # <<>>
       /\ Head(s) = Head(prefix)
       /\ HasPrefix(Tail(s), Tail(prefix))

\* The glob match of SCAN's MATCH option, for a pattern of literal
\* characters ending in "*".
Match(regex, k) ==
    /\ regex # <<>>
    /\ regex[Len(regex)] = "*"
    /\ HasPrefix(k, SubSeq(regex, 1, Len(regex) - 1))

\* The flat keys present, in scan order.
Present(d) == SelectSeq(KeyOrder, LAMBDA k : d[k] # Absent)

\* SCAN cursor MATCH regex COUNT count: the engine walks its keyspace (the
\* nf foreign keys, then the present flat keys) count keys at a time from the
\* cursor, returns those of the page that match and the next cursor, which
\* is 0 once the walk is complete.
EngineScan(d, nf, cursor, regex, count) ==
    LET present == Present(d)
        total == nf + Len(present)
        last == IF cursor + count < total THEN cursor + count ELSE total
        from == IF cursor + 1 > nf THEN cursor + 1 - nf ELSE 1
        page == SubSeq(present, from, last - nf)
    IN  [cursor |-> IF cursor + count < total THEN cursor + count ELSE 0,
         keys |-> SelectSeq(page, LAMBDA k : Match(regex, k))]

\* MGET key...: one reply per key, nil for an absent key.
EngineMGet(d, ks) == [i \in 1..Len(ks) |-> EngineGet(d, ks[i])]

\* ------------------------------------------------------------------- state

VARIABLES
    db,       \* engine: flat key -> entry
    nFill,    \* engine: number of keys of other applications
    pc,       \* caller -> where it stands in the method it runs ("idle": in none)
    op,       \* caller -> the call it runs
    loc,      \* caller -> locals of keys(): allKeys, nextCursor
    ncalls,   \* number of calls made so far
    ev,       \* the call that has just returned, with what it returned,
              \* until its caller has taken the result
    gh,       \* caller -> history of the call it runs
    fresh,    \* flat key -> the Put(key, value, nil) that wrote its entry
    cleared,  \* directory -> a DeleteTree of it returned, nothing stored since
    past,     \* flat key -> versions stored under it so far
    read,     \* the pair the latest successful Get returned, and whether
              \* a Put or AtomicPut has stored under its key since
    expired   \* flat keys whose entry the engine removed on expiry, no
              \* command having written or deleted them since

vars == <<db, nFill, pc, op, loc, ncalls, ev, gh, fresh, cleared, past, read,
          expired>>

\* store.KVPair
KVPair(key, value, lastIndex) == [Key |-> key, Value |-> value, LastIndex |-> lastIndex]

Call(name, key, value, previous, options) ==
    [name |-> name, key |-> key, value |-> value, previous |-> previous,
     options |-> options]
NoCall == Call("", <<>>, "", Nil, Nil)

\* What a method returns: its bool (or, of a method that returns only an
\* error, whether the error is nil), its error and its pairs.
Ret(ok, err, pairs) == [ok |-> ok, err |-> err, pairs |-> pairs]

NoLoc == [allKeys |-> <<>>, nextCursor |-> 0]

\* History of a call: the version stored under its key when it started (Nil:
\* none), whether no key it concerns was stored then, whether no other
\* caller (nor expiry) has written a key it concerns since, whether it has
\* issued a write or delete itself, and what held when it started.
Hist(start, empty0, fenced, fresh0, cleared0) ==
    [start |-> start, empty0 |-> empty0, clean |-> TRUE, wrote |-> FALSE,
     fenced |-> fenced, fresh0 |-> fresh0, cleared0 |-> cleared0]
NoHist == Hist(Nil, TRUE, FALSE, Nil, FALSE)

\* A returned call: the call, what it returned, its history and the keys
\* its scan had accumulated.
Event(o, r, h, allKeys) == [op |-> o, ret |-> r, h |-> h, allKeys |-> allKeys]
NoEvent == Event(NoCall, Ret(FALSE, NoErr, <<>>), NoHist, <<>>)

\* A write of one step: the flat keys it deleted, and the entry it stored.
NoStore == Nil
Stored(k, version, put) == Some([k |-> k, Version |-> version, put |-> put])
Write(del, set) == [del |-> del, set |-> set]
NoWrite == Write({}, NoStore)
Touched(w) == w.del \cup {w.set[i].k : i \in DOMAIN w.set}

\* The flat keys a call concerns: its key, or the keys under its directory.
Concerns(o) ==
    IF o.name \in {"List", "DeleteTree"}
    THEN {k \in FlatKeys : Match(normalize(o.key) \o <<"*">>, k)}
    ELSE {k \in FlatKeys : k = normalize(o.key)}

\* What a step of another caller (or expiry) does to a running call's history.
Disturb(c, w) ==
    [gh[c] EXCEPT
       !.clean = @ /\ ~(pc[c] # "idle" /\ Touched(w) \cap Concerns(op[c]) # {})]

\* The history every step keeps: self took the step (0: the engine's clock),
\* o is its call, r what the call returned if the step returned (Nil if not),
\* w what the step wrote.
Record(self, o, r, w) ==
    /\ expired' = IF self = 0 THEN expired \cup w.del ELSE expired \ Touched(w)
    /\ fresh' = [k \in FlatKeys |->
                   IF k \in Touched(w)
                   THEN IF w.set # NoStore /\ w.set[1].k = k THEN w.set[1].put ELSE Nil
                   ELSE fresh[k]]
    /\ cleared' = [d \in Dirs |->
                     IF r # Nil /\ o.name = "DeleteTree" /\ r[1].err = NoErr /\ d = o.key
                     THEN TRUE
                     ELSE IF w.set # NoStore THEN FALSE
                     ELSE cleared[d]]
    /\ past' = [k \in FlatKeys |->
                  IF w.set # NoStore /\ w.set[1].k = k
                  THEN past[k] \cup {w.set[1].Version}
                  ELSE past[k]]
    /\ read' = IF r # Nil /\ o.name = "Get" /\ r[1].err = NoErr
               THEN Some([key |-> o.key,
                          LastIndex |-> r[1].pairs[1].LastIndex, stale |-> FALSE])
               ELSE IF /\ read # Nil
                       /\ w.set # NoStore
                       /\ w.set[1].k = normalize(read[1].key)
                    THEN Some([read[1] EXCEPT !.stale = TRUE])
                    ELSE read

\* The entries a store holds to begin with: written by earlier calls of Put
\* with nil options.
InitEntries ==
    {Absent} \cup {Entry(Envelope("v1", n), 0) : n \in Versions}

Init ==
    /\ db \in [FlatKeys -> InitEntries]
    /\ nFill \in {0, MaxFill}
    /\ pc = [c \in Procs |-> "idle"]
    /\ op = [c \in Procs |-> NoCall]
    /\ loc = [c \in Procs |-> NoLoc]
    /\ ncalls = 0
    /\ ev = NoEvent
    /\ gh = [c \in Procs |-> NoHist]
    /\ fresh = [k \in FlatKeys |-> Nil]
    /\ cleared = [d \in Dirs |-> FALSE]
    /\ past = [k \in FlatKeys |->
                 IF db[k] = Absent THEN {} ELSE {unmarshal(db[k].val).Version}]
    /\ read = Nil
    /\ expired = {}

\* No result waits to be taken.
Ready == ev = NoEvent

\* A caller that is in no method calls one: of the callers that are in no
\* method, which are alike, the first.
Begin(self) ==
    /\ Ready
    /\ pc[self] = "idle"
    /\ \A c \in Procs : pc[c] = "idle" => self <= c
    /\ ncalls < MaxCalls
    /\ ncalls' = ncalls + 1

\* The history call o of self starts with.
Start(self, o) ==
    LET k == normalize(o.key)
        known == k \in FlatKeys
    IN  Hist(IF known /\ db[k] # Absent
             THEN Some(unmarshal(db[k].val).Version) ELSE Nil,
             \A c \in Concerns(o) : db[c] = Absent,
             /\ o.name = "AtomicPut"
             /\ o.previous # Nil
             /\ read # Nil
             /\ read[1].key = o.key
             /\ read[1].LastIndex = o.previous[1].LastIndex
             /\ read[1].stale,
             IF known /\ o.name = "Get" THEN fresh[k] ELSE Nil,
             o.name = "List" /\ cleared[o.key])

Wrote(h) == [h EXCEPT !.wrote = TRUE]

\* Call o of self, with history h, returns r after a step that wrote w.
Return(self, o, r, h, w) ==
    /\ pc' = [pc EXCEPT ![self] = "idle"]
    /\ op' = [op EXCEPT ![self] = NoCall]
    /\ loc' = [loc EXCEPT ![self] = NoLoc]
    /\ gh' = [c \in Procs |-> IF c = self THEN NoHist ELSE Disturb(c, w)]
    /\ ev' = Event(o, r, h, loc[self].allKeys)
    /\ Record(self, o, Some(r), w)

\* Call o of self, with history h and locals l, goes on at label lbl after a
\* step that wrote w.
Goto(self, lbl, o, l, h, w) ==
    /\ pc' = [pc EXCEPT ![self] = lbl]
    /\ op' = [op EXCEPT ![self] = o]
    /\ loc' = [loc EXCEPT ![self] = l]
    /\ gh' = [c \in Procs |-> IF c = self THEN h ELSE Disturb(c, w)]
    /\ ev' = NoEvent
    /\ Record(self, o, Nil, w)

\* --------------------------------------------------------------- constants

\* keys(), lines 150-154
startCursor == 0
endCursor == 0
defaultCount == 10

\* noExpiration, line 56
noExpiration == 0

\* ----------------------------------------------------------- pure functions

\* expirationAfter as it would be if the options were not read.
expirationAfterNever(options) == noExpiration

\* expirationAfter (lines 84-87, 244-247)
expirationAfter(options) == IF options = Nil THEN noExpiration ELSE options[1].TTL

\* Get as it would be if it keyed the pair by the flat key, as mget does.
GetPairFlatKey(d, key) ==
    LET reply == EngineGet(d, normalize(key))
    IN  IF reply = Nil
        THEN [pair |-> Nil, err |-> ErrKeyNotFound]
        ELSE LET vv == unmarshal(reply[1])
             IN  [pair |-> Some(KVPair(normalize(key), vv.Value, vv.Version)),
                  err |-> NoErr]

\* Get (lines 100-116) on engine state d: the pair, or ErrKeyNotFound.
GetPair(d, key) ==
    LET reply == EngineGet(d, normalize(key))
    IN  IF reply = Nil
        THEN [pair |-> Nil, err |-> ErrKeyNotFound]
        ELSE LET vv == unmarshal(reply[1])
             IN  [pair |-> Some(KVPair(key, vv.Value, vv.Version)), err |-> NoErr]

\* Put as it would be if it stored the caller's bytes without the version.
storedStringBare(value, version) == Base64(value)

\* The string Put and AtomicPut hand to SET and SETNX: string(vv.marshal())
\* of the value with its version (lines 89-93, 249-253).
storedString(value, version) == marshal(versionedValue(value, version))

\* AtomicPut's decision as it would be if it wrote over the entry in place,
\* without the delete of line 238.
AtomicPutCheckNoDelete(existedOne, previous) ==
    IF previous = Nil /\ existedOne # Nil THEN "modified"
    ELSE IF previous # Nil
    THEN IF existedOne = Nil THEN "modified"
         ELSE IF existedOne[1].LastIndex # previous[1].LastIndex THEN "modified"
         ELSE "write"
    ELSE "write"

\* AtomicPut's decision without the test of line 226.
AtomicPutCheckNoCreateGuard(existedOne, previous) ==
    IF previous # Nil
    THEN IF existedOne = Nil THEN "modified"
         ELSE IF existedOne[1].LastIndex # previous[1].LastIndex THEN "modified"
         ELSE "delete"
    ELSE "write"

\* The decision of AtomicPut, lines 226-241: fail with ErrKeyModified, delete
\* the entry and then write, or write.
AtomicPutCheck(existedOne, previous) ==
    IF previous = Nil /\ existedOne # Nil THEN "modified"
    ELSE IF previous # Nil
    THEN IF existedOne = Nil THEN "modified"
         ELSE IF existedOne[1].LastIndex # previous[1].LastIndex THEN "modified"
         ELSE "delete"
    ELSE "write"

\* AtomicDelete's decision without the comparison of line 279.
AtomicDeleteCheckNoCompare(existedOne, previous) ==
    IF previous = Nil /\ existedOne # Nil THEN "modified"
    ELSE IF previous # Nil
    THEN IF existedOne = Nil THEN "modified" ELSE "delete"
    ELSE "delete"

\* The decision of AtomicDelete, lines 271-283: fail with ErrKeyModified, or
\* delete.
AtomicDeleteCheck(existedOne, previous) ==
    IF previous = Nil /\ existedOne # Nil THEN "modified"
    ELSE IF previous # Nil
    THEN IF existedOne = Nil THEN "modified"
         ELSE IF existedOne[1].LastIndex # previous[1].LastIndex THEN "modified"
         ELSE "delete"
    ELSE "delete"

\* The pattern List and DeleteTree scan for (lines 140, 209).
regex(directory) == normalize(directory) \o <<"*">>

\* The cursor keys() passes to Scan inside its loop (line 164).
loopCursor(nextCursor) == startCursor

\* keys() without the test of line 170.
keysErrNever(allKeys) == NoErr

\* What keys() returns once the scan is over (lines 170-173).
keysErr(allKeys) == IF Len(allKeys) = 0 THEN ErrKeyNotFound ELSE NoErr

\* mget as it would be if it stopped at the first empty reply.
RECURSIVE mgetPairsStop(_, _, _)
mgetPairsStop(keys, replies, i) ==
    IF i > Len(replies) THEN <<>>
    ELSE LET reply == replies[i]
             sreply == IF reply # Nil THEN reply[1] ELSE <<>>
         IN  IF sreply = <<>>
             THEN <<>>
             ELSE LET vv == unmarshal(sreply)
                  IN  <<KVPair(keys[i], vv.Value, vv.Version)>>
                          \o mgetPairsStop(keys, replies, i + 1)

\* The loop of mget, lines 183-203, over the replies of MGET from position i.
RECURSIVE mgetPairs(_, _, _)
mgetPairs(keys, replies, i) ==
    IF i > Len(replies) THEN <<>>
    ELSE LET reply == replies[i]
             sreply == IF reply # Nil THEN reply[1] ELSE <<>>
         IN  IF sreply = <<>>
             THEN mgetPairs(keys, replies, i + 1)
             ELSE LET vv == unmarshal(sreply)
                  IN  <<KVPair(keys[i], vv.Value, vv.Version)>>
                          \o mgetPairs(keys, replies, i + 1)

\* AtomicPut as it would be if it reported a lost SETNX as ErrKeyModified.
AtomicPutRetModified(created, nkey, value, version) ==
    IF created
    THEN Ret(TRUE, NoErr, <<KVPair(nkey, value, version)>>)
    ELSE Ret(FALSE, ErrKeyModified, <<>>)

\* What AtomicPut returns after SETNX returned no error (lines 253-260),
\* whether or not SETNX created the entry: its bool reply is not read.
AtomicPutRet(created, nkey, value, version) ==
    Ret(TRUE, NoErr, <<KVPair(nkey, value, version)>>)

\* DeleteTree as it would be if it emptied the keyspace it knows.
DeleteTreeKeysAll(allKeys) == FlatKeys

\* DeleteTree as it would be if it deleted the first key alone.
DeleteTreeKeysFirst(allKeys) == {allKeys[1]}

\* The keys DeleteTree passes to DEL (line 214).
DeleteTreeKeys(allKeys) == {allKeys[i] : i \in DOMAIN allKeys}

\* An unsupported method as it would be if it returned no error.
UnsupportedNoErr == Ret(FALSE, NoErr, <<>>)

\* What Watch, WatchTree and NewLock return (part_000 lines 17, 24, 33).
Unsupported == Ret(FALSE, ErrNotImplemented, <<>>)

\* previous of AtomicPut and AtomicDelete: nil, or a pair, of which only
\* LastIndex is read.
Previous == {Nil} \cup {Some([LastIndex |-> n]) : n \in Versions}

\* ----------------------------------------------------------------- actions

\* Put, lines 83-97.
Put(self) ==
    \E key \in Keys, value \in Values, options \in Options, version \in Versions :
        LET o == Call("Put", key, value, Nil, options)
            k == normalize(key)
        IN  /\ Begin(self)
            /\ db' = EngineSet(db, k, storedString(value, version), expirationAfter(options))
            /\ Return(self, o, Ret(TRUE, NoErr, <<>>), Wrote(Start(self, o)),
                      Write({}, Stored(k, version,
                                       IF options = Nil
                                       THEN Some([Key |-> key, Value |-> value])
                                       ELSE Nil)))
            /\ UNCHANGED nFill

\* Get, lines 100-116.
Get(self) ==
    \E key \in Keys :
        LET o == Call("Get", key, "", Nil, Nil)
            g == GetPair(db, key)
        IN  /\ Begin(self)
            /\ Return(self, o, Ret(g.err = NoErr, g.err, g.pair), Start(self, o), NoWrite)
            /\ UNCHANGED <<db, nFill>>

\* Delete, lines 119-124.
Delete(self) ==
    \E key \in Keys :
        LET o == Call("Delete", key, "", Nil, Nil)
            k == normalize(key)
        IN  /\ Begin(self)
            /\ db' = EngineDel(db, {k})
            /\ Return(self, o, Ret(TRUE, NoErr, <<>>), Wrote(Start(self, o)),
                      Write({k}, NoStore))
            /\ UNCHANGED nFill

\* Exists, lines 127-129.
Exists(self) ==
    \E key \in Keys :
        LET o == Call("Exists", key, "", Nil, Nil)
        IN  /\ Begin(self)
            /\ Return(self, o, Ret(EngineExists(db, normalize(key)), NoErr, <<>>),
                      Start(self, o), NoWrite)
            /\ UNCHANGED <<db, nFill>>

\* One Scan of keys() (line 158, or line 164 in the loop) for call o with
\* history h, which has accumulated acc, and what follows it: the loop goes
\* on, keys() fails on an empty result (line 171), or the caller goes on
\* with the keys.
keysScan(self, o, h, cursor, acc) ==
    LET r == EngineScan(db, nFill, cursor, regex(o.key), defaultCount)
        allKeys == acc \o r.keys
        l == [allKeys |-> allKeys, nextCursor |-> r.cursor]
    IN  /\ Len(allKeys) <= MaxAllKeys
        /\ IF r.cursor # endCursor THEN Goto(self, "keys", o, l, h, NoWrite)
           ELSE IF keysErr(allKeys) # NoErr
                THEN Return(self, o, Ret(FALSE, keysErr(allKeys), <<>>), h, NoWrite)
                ELSE Goto(self, IF o.name = "List" THEN "mget" ELSE "del", o, l, h, NoWrite)
        /\ UNCHANGED <<db, nFill>>

\* List, lines 132-147, to the first Scan of keys().
List(self) ==
    \E directory \in Dirs :
        LET o == Call("List", directory, "", Nil, Nil)
        IN  /\ Begin(self)
            /\ keysScan(self, o, Start(self, o), startCursor, <<>>)

\* DeleteTree, lines 207-215, to the first Scan of keys().
DeleteTree(self) ==
    \E directory \in Dirs :
        LET o == Call("DeleteTree", directory, "", Nil, Nil)
        IN  /\ Begin(self)
            /\ keysScan(self, o, Start(self, o), startCursor, <<>>)

\* The loop of keys(), lines 163-169: one more Scan.
keys(self) ==
    /\ Ready
    /\ pc[self] = "keys"
    /\ keysScan(self, op[self], gh[self], loopCursor(loc[self].nextCursor),
                loc[self].allKeys)
    /\ UNCHANGED ncalls

\* mget, lines 177-204, called by List at line 146.
mget(self) ==
    /\ Ready
    /\ pc[self] = "mget"
    /\ LET ks == loc[self].allKeys
       IN  Return(self, op[self], Ret(TRUE, NoErr, mgetPairs(ks, EngineMGet(db, ks), 1)),
                  gh[self], NoWrite)
    /\ UNCHANGED <<db, nFill, ncalls>>

\* The bulk delete of DeleteTree, line 214.
DeleteTreeDel(self) ==
    /\ Ready
    /\ pc[self] = "del"
    /\ LET ks == DeleteTreeKeys(loc[self].allKeys)
       IN  /\ db' = EngineDel(db, ks)
           /\ Return(self, op[self], Ret(TRUE, NoErr, <<>>), Wrote(gh[self]),
                     Write(ks, NoStore))
    /\ UNCHANGED <<nFill, ncalls>>

\* AtomicPut, lines 221-236: the read and the decision.
AtomicPut(self) ==
    \E key \in Keys, value \in Values, previous \in Previous, options \in Options :
        LET o == Call("AtomicPut", key, value, previous, options)
            existedOne == GetPair(db, key).pair
            decision == AtomicPutCheck(existedOne, previous)
            h == Start(self, o)
        IN  /\ Begin(self)
            /\ IF decision = "modified"
               THEN Return(self, o, Ret(FALSE, ErrKeyModified, <<>>), h, NoWrite)
               ELSE Goto(self, IF decision = "delete" THEN "ap_delete" ELSE "ap_setnx",
                         o, NoLoc, h, NoWrite)
            /\ UNCHANGED <<db, nFill>>

\* AtomicPut, lines 237-240: delete first, so that SETNX can work.
AtomicPutDelete(self) ==
    /\ Ready
    /\ pc[self] = "ap_delete"
    /\ LET k == normalize(op[self].key)
       IN  /\ db' = EngineDel(db, {k})
           /\ Goto(self, "ap_setnx", op[self], NoLoc, Wrote(gh[self]),
                   Write({k}, NoStore))
    /\ UNCHANGED <<nFill, ncalls>>

\* AtomicPut, lines 243-260: the create-only write, and the pair returned.
AtomicPutSetNX(self) ==
    /\ Ready
    /\ pc[self] = "ap_setnx"
    /\ \E version \in Versions :
        LET o == op[self]
            nkey == normalize(o.key)
            created == db[nkey] = Absent
        IN  /\ db' = EngineSetNX(db, nkey, storedString(o.value, version),
                                 expirationAfter(o.options))
            /\ Return(self, o, AtomicPutRet(created, nkey, o.value, version),
                      Wrote(gh[self]),
                      Write({}, IF created THEN Stored(nkey, version, Nil)
                                ELSE NoStore))
    /\ UNCHANGED <<nFill, ncalls>>

\* AtomicDelete, lines 266-282: the read and the decision.
AtomicDelete(self) ==
    \E key \in Keys, previous \in Previous :
        LET o == Call("AtomicDelete", key, "", previous, Nil)
            existedOne == GetPair(db, key).pair
            decision == AtomicDeleteCheck(existedOne, previous)
            h == Start(self, o)
        IN  /\ Begin(self)
            /\ IF decision = "modified"
               THEN Return(self, o, Ret(FALSE, ErrKeyModified, <<>>), h, NoWrite)
               ELSE Goto(self, "ad_delete", o, NoLoc, h, NoWrite)
            /\ UNCHANGED <<db, nFill>>

\* AtomicDelete, line 283: the delete.
AtomicDeleteDelete(self) ==
    /\ Ready
    /\ pc[self] = "ad_delete"
    /\ LET k == normalize(op[self].key)
       IN  /\ db' = EngineDel(db, {k})
           /\ Return(self, op[self], Ret(TRUE, NoErr, <<>>), Wrote(gh[self]),
                     Write({k}, NoStore))
    /\ UNCHANGED <<nFill, ncalls>>

\* Watch, WatchTree and NewLock (part_000 lines 15-33).
Watch(self) ==
    \E key \in Keys :
        LET o == Call("Watch", key, "", Nil, Nil)
        IN  /\ Begin(self)
            /\ Return(self, o, Unsupported, Start(self, o), NoWrite)
            /\ UNCHANGED <<db, nFill>>

WatchTree(self) ==
    \E directory \in Dirs :
        LET o == Call("WatchTree", directory, "", Nil, Nil)
        IN  /\ Begin(self)
            /\ Return(self, o, Unsupported, Start(self, o), NoWrite)
            /\ UNCHANGED <<db, nFill>>

NewLock(self) ==
    \E key \in Keys :
        LET o == Call("NewLock", key, "", Nil, Nil)
        IN  /\ Begin(self)
            /\ Return(self, o, Unsupported, Start(self, o), NoWrite)
            /\ UNCHANGED <<db, nFill>>

\* The engine's clock advances one tick: an entry with a time to live
\* comes one tick nearer its expiry, and is removed on reaching it.
Tick ==
    LET gone == {k \in FlatKeys : db[k].ttl = 1}
    IN  /\ Ready
        /\ \E k \in FlatKeys : db[k].ttl > 0
        /\ db' = [k \in FlatKeys |->
                    IF k \in gone THEN Absent
                    ELSE IF db[k].ttl > 0 THEN [db[k] EXCEPT !.ttl = @ - 1]
                    ELSE db[k]]
        /\ gh' = [c \in Procs |-> Disturb(c, Write(gone, NoStore))]
        /\ ev' = NoEvent
        /\ Record(0, NoCall, Nil, Write(gone, NoStore))
        /\ UNCHANGED <<nFill, pc, op, loc, ncalls>>

\* The caller takes the result of the call that has just returned.
Taken ==
    /\ ~Ready
    /\ ev' = NoEvent
    /\ UNCHANGED <<db, nFill, pc, op, loc, ncalls, gh, fresh, cleared, past, read,
                   expired>>

\* A step of caller self.
Step(self) ==
    \/ Put(self)
    \/ Get(self)
    \/ Delete(self)
    \/ Exists(self)
    \/ List(self)
    \/ DeleteTree(self)
    \/ keys(self)
    \/ mget(self)
    \/ DeleteTreeDel(self)
    \/ AtomicPut(self)
    \/ AtomicPutDelete(self)
    \/ AtomicPutSetNX(self)
    \/ AtomicDelete(self)
    \/ AtomicDeleteDelete(self)
    \/ Watch(self)
    \/ WatchTree(self)
    \/ NewLock(self)

\* One caller at a time: every call returns before the next is made, while
\* the engine's clock runs.
Next ==
    \/ Step(1)
    \/ Tick
    \/ Taken

Spec == Init /\ [][Next]_vars

\* Concurrent callers: the engine commands of their calls interleave.
NextConcurrent ==
    \/ \E self \in Procs : Step(self)
    \/ Tick
    \/ Taken

SpecConcurrent == Init /\ [][NextConcurrent]_vars

\* AtomicPut, lines 222-225: its Get fails with an engine error.
AtomicPutGetErr(self) ==
    \E key \in Keys, value \in Values, previous \in Previous, options \in Options :
        LET o == Call("AtomicPut", key, value, previous, options)
        IN  /\ Begin(self)
            /\ Return(self, o, Ret(FALSE, ErrEngine, <<>>), Start(self, o), NoWrite)
            /\ UNCHANGED <<db, nFill>>

\* AtomicPut, lines 238-240: its Delete returns an engine error, the engine
\* having carried the command out (the reply was lost) or not.
AtomicPutDeleteErr(self) ==
    /\ Ready
    /\ pc[self] = "ap_delete"
    /\ \E applied \in BOOLEAN :
        LET k == normalize(op[self].key)
        IN  /\ db' = IF applied THEN EngineDel(db, {k}) ELSE db
            /\ Return(self, op[self], Ret(FALSE, ErrEngine, <<>>),
                      IF applied THEN Wrote(gh[self]) ELSE gh[self],
                      IF applied THEN Write({k}, NoStore) ELSE NoWrite)
    /\ UNCHANGED <<nFill, ncalls>>

\* AtomicPut, lines 253-255: its SetNX returns an engine error, the engine
\* having carried the command out or not.
AtomicPutSetNXErr(self) ==
    /\ Ready
    /\ pc[self] = "ap_setnx"
    /\ \E version \in Versions, applied \in BOOLEAN :
        LET o == op[self]
            nkey == normalize(o.key)
            created == applied /\ db[nkey] = Absent
        IN  /\ db' = IF applied
                     THEN EngineSetNX(db, nkey, storedString(o.value, version),
                                      expirationAfter(o.options))
                     ELSE db
            /\ Return(self, o, Ret(FALSE, ErrEngine, <<>>),
                      IF applied THEN Wrote(gh[self]) ELSE gh[self],
                      Write({}, IF created THEN Stored(nkey, version, Nil)
                                ELSE NoStore))
    /\ UNCHANGED <<nFill, ncalls>>

\* One caller at a time, over an engine whose commands may fail while an
\* AtomicPut runs.
NextFaulty ==
    \/ Next
    \/ AtomicPutGetErr(1)
    \/ AtomicPutDeleteErr(1)
    \/ AtomicPutSetNXErr(1)

SpecFaulty == Init /\ [][NextFaulty]_vars

\* Two callers whose compare-and-swap calls and reads interleave, engine
\* command by engine command.
StepRace(self) ==
    \/ AtomicPut(self)
    \/ AtomicPutDelete(self)
    \/ AtomicPutSetNX(self)
    \/ Get(self)
    \/ Exists(self)

NextRace ==
    \/ \E self \in Procs : StepRace(self)
    \/ Taken

SpecRace == Init /\ [][NextRace]_vars

\* Two callers whose compare-and-swap puts and deletes interleave.
StepCAS(self) ==
    \/ AtomicPut(self)
    \/ AtomicPutDelete(self)
    \/ AtomicPutSetNX(self)
    \/ AtomicDelete(self)
    \/ AtomicDeleteDelete(self)

NextCAS ==
    \/ \E self \in Procs : StepCAS(self)
    \/ Taken

SpecCAS == Init /\ [][NextCAS]_vars

\* Two callers whose writes and subtree deletions interleave.
StepTree(self) ==
    \/ Put(self)
    \/ DeleteTree(self)
    \/ keys(self)
    \/ DeleteTreeDel(self)

NextTree ==
    \/ \E self \in Procs : StepTree(self)
    \/ Taken

SpecTree == Init /\ [][NextTree]_vars

\* ------------------------------------------------------------------ claims

\* The version of the entry stored under flat key k.
VersionOf(d, k) == unmarshal(d[k].val).Version

Returned(name) == ev.op.name = name

\* C1: with no concurrent writer, AtomicPut(k, v, nil, options) returns
\* ok = true iff k had no stored entry when the call started, and on a key
\* that had one it returns ok = false with ErrKeyModified.
C1_CreateIffAbsent ==
    (Returned("AtomicPut") /\ ev.op.previous = Nil /\ ev.h.clean) =>
        /\ ev.ret.ok <=> ev.h.start = Nil
        /\ ev.h.start # Nil => ~ev.ret.ok /\ ev.ret.err = ErrKeyModified

\* An AtomicPut with previous = nil has created a key, and its entry is there.
C1_Witness ==
    /\ Returned("AtomicPut")
    /\ ev.op.previous = Nil
    /\ ev.ret.ok
    /\ db[normalize(ev.op.key)] # Absent

\* C2: an AtomicPut(k, v2, p, options) whose p was read from k by Get, when
\* a Put or AtomicPut has stored under k since that read, returns ok = false
\* with ErrKeyModified and writes nothing.
C2_Fencing ==
    (Returned("AtomicPut") /\ ev.h.fenced) =>
        /\ ~ev.ret.ok
        /\ ev.ret.err = ErrKeyModified
        /\ ~ev.h.wrote

\* C3: with no concurrent writer, AtomicDelete(k, p) with a pair p returns
\* ok = true, and k is gone, iff p.LastIndex is the version stored under k
\* when the call started; otherwise (another version, or no entry) it
\* returns ok = false with ErrKeyModified and deletes nothing.
C3_DeleteIffMatch ==
    (Returned("AtomicDelete") /\ ev.op.previous # Nil /\ ev.h.clean) =>
        LET match == ev.h.start = Some(ev.op.previous[1].LastIndex)
        IN  /\ ev.ret.ok <=> match
            /\ match => db[normalize(ev.op.key)] = Absent /\ ev.ret.err = NoErr
            /\ ~match => ev.ret.err = ErrKeyModified /\ ~ev.h.wrote

\* An AtomicDelete with the stored version has removed an entry.
C3_Witness ==
    /\ Returned("AtomicDelete")
    /\ ev.op.previous # Nil
    /\ ev.h.start # Nil
    /\ ev.ret.ok
    /\ db[normalize(ev.op.key)] = Absent

\* C4: every successful Put or AtomicPut on k stores a version that is none
\* of the versions stored under k before.
C4_FreshVersion ==
    [][(ev'.op.name \in {"Put", "AtomicPut"} /\ ev'.ret.ok) =>
          /\ db'[normalize(ev'.op.key)] # Absent
          /\ VersionOf(db', normalize(ev'.op.key)) \notin past[normalize(ev'.op.key)]
      ]_vars

\* C5: a Get(k) made when the entry of k is the one a Put(k, v, nil) wrote
\* returns no error and a pair with Key = k and Value = v.
C5_PutGet ==
    (Returned("Get") /\ ev.h.fresh0 # Nil) =>
        /\ ev.ret.err = NoErr
        /\ Len(ev.ret.pairs) = 1
        /\ ev.ret.pairs[1].Key = ev.op.key
        /\ ev.ret.pairs[1].Key = ev.h.fresh0[1].Key
        /\ ev.ret.pairs[1].Value = ev.h.fresh0[1].Value

\* A Get has returned what a Put wrote over an entry of another value.
C5_Witness ==
    /\ Returned("Get")
    /\ ev.h.fresh0 # Nil
    /\ ev.ret.err = NoErr
    /\ ev.ret.pairs[1].Value = ""

\* The flat keys stored in d that match the pattern of directory.
Under(d, directory) == {k \in FlatKeys : d[k] # Absent /\ Match(regex(directory), k)}

\* C6: a List(dir) that returns without error, no key under the prefix
\* having been written during the call, returns one pair for each stored
\* entry under the prefix: none missing, none repeated, none from outside.
C6_ListExact ==
    (Returned("List") /\ ev.ret.err = NoErr /\ ev.h.clean) =>
        LET pairs == ev.ret.pairs
        IN  /\ {normalize(pairs[i].Key) : i \in DOMAIN pairs} = Under(db, ev.op.key)
            /\ Len(pairs) = Cardinality(Under(db, ev.op.key))
            /\ \A i \in DOMAIN pairs :
                 LET vv == unmarshal(db[normalize(pairs[i].Key)].val)
                 IN  pairs[i].Value = vv.Value /\ pairs[i].LastIndex = vv.Version

\* C7: a List(dir) or DeleteTree(dir) called when no stored key matches the
\* prefix, none being written during the call, returns ErrKeyNotFound, with
\* no pairs, and has issued no write or delete.
C7_EmptyPrefix ==
    (/\ ev.op.name \in {"List", "DeleteTree"}
     /\ ev.h.empty0
     /\ ev.h.clean) =>
        /\ ev.ret.err = ErrKeyNotFound
        /\ ~ev.ret.ok
        /\ ev.ret.pairs = <<>>
        /\ ~ev.h.wrote

\* A DeleteTree has failed on an empty prefix while the store holds a key
\* outside it.
C7_Witness ==
    /\ Returned("DeleteTree")
    /\ ev.h.empty0
    /\ ev.ret.err = ErrKeyNotFound
    /\ \E k \in FlatKeys : db[k] # Absent

\* C8: a List(dir) called after a DeleteTree(dir) has returned without
\* error, nothing having been stored since, returns at its first scan, and
\* returns ErrKeyNotFound.
C8_DeleteTreeThenList ==
    /\ \A c \in Procs : (pc[c] # "idle" /\ op[c].name = "List") => ~gh[c].cleared0
    /\ (Returned("List") /\ ev.h.cleared0) => ev.ret.err = ErrKeyNotFound

\* A List has failed after a DeleteTree of the same directory.
C8_Witness ==
    /\ Returned("List")
    /\ ev.h.cleared0
    /\ ev.ret.err = ErrKeyNotFound

\* C9: Watch, WatchTree and NewLock return the not-implemented error in the
\* step that calls them, whatever the state, and leave the engine as it was.
C9_Unsupported ==
    [][ev'.op.name \in {"Watch", "WatchTree", "NewLock"} =>
          /\ ev'.ret.err = ErrNotImplemented
          /\ ~ev'.ret.ok
          /\ ev'.ret.pairs = <<>>
          /\ ~ev'.h.wrote
          /\ db' = db
          /\ nFill' = nFill
          /\ pc' = pc
      ]_vars

\* An unsupported method has returned over a store that holds entries.
C9_Witness ==
    /\ ev.op.name \in {"Watch", "WatchTree", "NewLock"}
    /\ ev.ret.err = ErrNotImplemented
    /\ \E k \in FlatKeys : db[k] # Absent

\* The pairs multi-get owes for keys ks over engine state d: one for each
\* position whose key is stored, in the order of ks.
Owed(ks, d) ==
    LET at == SelectSeq([i \in 1..Len(ks) |-> i], LAMBDA i : d[ks[i]] # Absent)
    IN  [j \in 1..Len(at) |->
           KVPair(ks[at[j]], unmarshal(d[ks[at[j]]].val).Value, VersionOf(d, ks[at[j]]))]

\* C10: the multi-get of List returns no error and, in request order, one
\* pair for each position whose key is stored, and none for the others.
C10_MultiGet ==
    (Returned("List") /\ ev.ret.err # ErrKeyNotFound) =>
        /\ ev.ret.err = NoErr
        /\ ev.ret.pairs = Owed(ev.allKeys, db)

\* A multi-get has left out a key that went away after the scan, before a
\* key that is stored.
C10_Witness ==
    /\ Returned("List")
    /\ ev.ret.err = NoErr
    /\ Len(ev.allKeys) = 2
    /\ db[ev.allKeys[1]] = Absent
    /\ Len(ev.ret.pairs) = 1

\* C11: a Put or AtomicPut that succeeds with options.TTL = d leaves an entry
\* that Get returns and that has d ticks to live; with nil options it leaves
\* one that has no expiry; the engine removes an entry only when its time to
\* live has run out, never one without expiry; and a Get of a key whose
\* entry has expired returns ErrKeyNotFound.
C11_TTL ==
    [][LET o == ev'.op
           nk == normalize(o.key)
       IN  /\ (o.name \in {"Put", "AtomicPut"} /\ ev'.ret.ok) =>
                /\ GetPair(db', o.key).err = NoErr
                /\ db'[nk].ttl = IF o.options = Nil THEN 0 ELSE o.options[1].TTL
           /\ (o.name = "Get" /\ nk \in expired) => ev'.ret.err = ErrKeyNotFound
           /\ \A k \in FlatKeys :
                /\ (db[k] # Absent /\ db[k].ttl = 0 /\ db'[k] = Absent) => k \notin expired'
                /\ (k \in expired' /\ k \notin expired) => db[k].ttl = 1
      ]_vars

\* A Get has failed with ErrKeyNotFound on a key whose entry, written with a
\* TTL, has expired.
C11_Witness ==
    /\ Returned("Get")
    /\ normalize(ev.op.key) \in expired
    /\ ev.ret.err = ErrKeyNotFound

\* C12: every scan of the loop of keys() is given the cursor the scan before
\* it returned, so that the walk goes on where the engine stopped.
C12_ScanResumes ==
    \A c \in Procs :
        pc[c] = "keys" => loopCursor(loc[c].nextCursor) = loc[c].nextCursor

\* Caller c runs an AtomicPut with a pair as previous, has passed the
\* comparison and stands before its create-only write, no other caller
\* having written its key since the call started.
BetweenDeleteAndWrite(c) ==
    /\ pc[c] = "ap_setnx"
    /\ op[c].name = "AtomicPut"
    /\ op[c].previous # Nil
    /\ gh[c].clean

\* C13: while an AtomicPut(k, v, p) whose p matched stands between its delete
\* and its create-only write, k, which was stored before the call, is absent,
\* a Get(k) or Exists(k) of another caller reports it missing, and once the
\* call has returned k is stored again.
C13_AbsentInBetween ==
    /\ \A c \in Procs :
         BetweenDeleteAndWrite(c) =>
           /\ gh[c].start = Some(op[c].previous[1].LastIndex)
           /\ gh[c].wrote
           /\ db[normalize(op[c].key)] = Absent
           /\ GetPair(db, op[c].key).err = ErrKeyNotFound
           /\ ~EngineExists(db, normalize(op[c].key))
           /\ (ev.op.name \in {"Get", "Exists"} /\ ev.op.key = op[c].key) => ~ev.ret.ok
    /\ (Returned("AtomicPut") /\ ev.op.previous # Nil /\ ev.ret.ok /\ ev.h.clean) =>
           db[normalize(ev.op.key)] # Absent

\* A Get of another caller has reported a key missing that an AtomicPut in
\* progress had found stored and has deleted, and not yet written.
C13_Witness ==
    /\ Returned("Get")
    /\ ev.ret.err = ErrKeyNotFound
    /\ \E c \in Procs :
         /\ BetweenDeleteAndWrite(c)
         /\ op[c].key = ev.op.key
         /\ gh[c].start # Nil

\* A stored string that is the encoding of a value with a version.
IsEnvelope(s) ==
    \E value \in Values, version \in Versions :
        s = marshal(versionedValue(value, version))

\* C14: every string stored in the engine is the encoding of a value with a
\* version, which decodes and encodes back to itself, whatever calls have
\* succeeded or failed.
C14_Envelopes ==
    \A k \in FlatKeys :
        db[k] # Absent =>
          /\ IsEnvelope(db[k].val)
          /\ marshal(unmarshal(db[k].val)) = db[k].val
          /\ unmarshal(db[k].val).Version \in Versions

\* An AtomicPut has failed with an engine error after its write, and the
\* entry it left is an envelope of its value.
C14_Witness ==
    /\ Returned("AtomicPut")
    /\ ev.ret.err = ErrEngine
    /\ ev.h.wrote
    /\ db[normalize(ev.op.key)] # Absent
    /\ unmarshal(db[normalize(ev.op.key)].val).Value = ev.op.value

\* The set of the keys in sequence ks.
Range(ks) == {ks[i] : i \in DOMAIN ks}

\* C15: the keys a DeleteTree(dir) has scanned are under its prefix; its
\* scans change no entry; and the step in which it returns without error
\* removes the keys it has scanned and leaves every other entry as it was:
\* those outside the prefix, and those stored under it since the scan.
C15_DeleteTreeFrame ==
    [][\A c \in Procs :
         (pc[c] # "idle" /\ op[c].name = "DeleteTree") =>
           /\ \A k \in Range(loc[c].allKeys) : Match(regex(op[c].key), k)
           /\ ((pc'[c] # "idle" \/ ev'.ret.err # NoErr)
                 /\ (pc'[c] # pc[c] \/ loc'[c] # loc[c])) => db' = db
           /\ (pc'[c] = "idle" /\ ev'.ret.err = NoErr) =>
                /\ pc[c] = "del"
                /\ \A k \in FlatKeys :
                     db'[k] = IF k \in Range(loc[c].allKeys) THEN Absent ELSE db[k]
                /\ \A k \in FlatKeys :
                     ~Match(regex(op[c].key), k) => db'[k] = db[k]
      ]_vars

\* A DeleteTree has returned without error and an entry stored under its
\* prefix after its scan is still there.
C15_Witness ==
    /\ Returned("DeleteTree")
    /\ ev.ret.err = NoErr
    /\ ~ev.h.clean
    /\ \E k \in Under(db, ev.op.key) : k \notin Range(ev.allKeys)

\* C16: every pair a List returns carries the logical key its entry is
\* addressed by, the key a Get of that entry is called with and returns.
C16_ListOriginalKey ==
    (Returned("List") /\ ev.ret.err = NoErr) =>
        \A i \in DOMAIN ev.ret.pairs :
            \E key \in Keys :
                /\ normalize(key) = normalize(ev.ret.pairs[i].Key)
                /\ GetPair(db, key).pair # Nil =>
                     ev.ret.pairs[i].Key = GetPair(db, key).pair[1].Key
                /\ ev.ret.pairs[i].Key = key

\* C17: when an AtomicPut returns ok = true, the entry stored under its key
\* is the one its own create-only write has created: the value and the
\* version of the pair it returns.
C17_OwnWrite ==
    (Returned("AtomicPut") /\ ev.ret.ok) =>
        LET nk == normalize(ev.op.key)
        IN  /\ db[nk] # Absent
            /\ unmarshal(db[nk].val) =
                 versionedValue(ev.ret.pairs[1].Value, ev.ret.pairs[1].LastIndex)

\* C18: an AtomicPut or AtomicDelete that returns ErrKeyModified returns it
\* in the step in which it is called, after its read alone: it has issued no
\* write or delete, returns no pair, and every entry is as it was before.
C18_ModifiedNoWrite ==
    [][(ev'.op.name \in {"AtomicPut", "AtomicDelete"} /\ ev'.ret.err = ErrKeyModified) =>
          /\ ncalls' = ncalls + 1
          /\ ~ev'.h.wrote
          /\ ~ev'.ret.ok
          /\ ev'.ret.pairs = <<>>
          /\ db' = db
      ]_vars

\* An AtomicDelete has failed with ErrKeyModified on an entry of another
\* version than the one it was given, while another caller's AtomicPut is
\* under way.
C18_Witness ==
    /\ Returned("AtomicDelete")
    /\ ev.ret.err = ErrKeyModified
    /\ ev.op.previous # Nil
    /\ db[normalize(ev.op.key)] # Absent
    /\ VersionOf(db, normalize(ev.op.key)) # ev.op.previous[1].LastIndex
    /\ \E c \in Procs : pc[c] \in {"ap_delete", "ap_setnx"}

\* C19: an AtomicPut on a key that was stored when the call started, no
\* other caller (nor expiry) having written the key during the call, leaves
\* the key stored when it returns: with the envelope of the pair it returns
\* if it returns ok = true, and with the version it had before if it fails.
C19_NeverAbsent ==
    (Returned("AtomicPut") /\ ev.h.start # Nil /\ ev.h.clean) =>
        LET nk == normalize(ev.op.key)
        IN  /\ db[nk] # Absent
            /\ ev.ret.ok =>
                 unmarshal(db[nk].val) =
                   versionedValue(ev.ret.pairs[1].Value, ev.ret.pairs[1].LastIndex)
            /\ ~ev.ret.ok => VersionOf(db, nk) = ev.h.start[1]

\* C20: the pair a successful AtomicPut on k returns is the pair a Get(k)
\* made next returns: the same Key, Value and LastIndex.
C20_SamePair ==
    (Returned("AtomicPut") /\ ev.ret.ok) =>
        /\ GetPair(db, ev.op.key).err = NoErr
        /\ GetPair(db, ev.op.key).pair = ev.ret.pairs

====
